---- MODULE Spec2Model ----
(***************************************************************************)
(* A model of Kaleidoscope/toy.cpp: the lexer's token stream, the          *)
(* recursive-descent / precedence-climbing parser, the code generator      *)
(* (Codegen methods), the MCJITHelper that keeps the history of modules    *)
(* and execution engines, and the driver loop.                             *)
(***************************************************************************)
EXTENDS Integers, Sequences, FiniteSets, TLC

VARIABLES
  pc,           \* position of main(): "start", "loop", "done" (returned), "fatal"
                \* (report_fatal_error), "crashed" (undefined behaviour ended the
                \* process), "hung" (the compiled code called never returns)
  CurTok,       \* the parser's current token
  input,        \* tokens already available on stdin and not yet read
  Modules,      \* MCJITHelper::Modules, each a sequence of function entries
  OpenModule,   \* MCJITHelper::OpenModule as an index into Modules, 0 for NULL
  Engines,      \* MCJITHelper::Engines
  NamedValues,  \* the code generator's variable environment
  uniq,         \* the static counter of GenerateUniqueName
  prompts,      \* number of "ready> " prompts the loop has printed
  diag,         \* diagnostics printed by the last top-level construct
  last,         \* what the last iteration of the loop did
  lastResult    \* value printed by the last evaluated expression, <<>> if none

vars == <<pc, CurTok, input, Modules, OpenModule, Engines, NamedValues,
          uniq, prompts, diag, last, lastResult>>

-----------------------------------------------------------------------------
(* Bounds *)

MaxPrompts == 7    \* the loop runs at most this many iterations
MaxStream == 4     \* length of the token streams piped into the driver loop
MaxOps == 3        \* number of binary operators in a parsed expression
MaxDepth == 3      \* call depth of an evaluated expression

-----------------------------------------------------------------------------
(* Lexer: tokens *)

Tk(t, s, v) == [t |-> t, s |-> s, v |-> v]
tok_eof == Tk("eof", "", 0)
tok_def == Tk("def", "def", 0)
tok_extern == Tk("extern", "extern", 0)
tok_identifier(s) == Tk("id", s, 0)
tok_number(v) == Tk("num", "", v)
Ch(c) == Tk("ch", c, 0)

\* the token returned by the lexer when it is at position pos of toks; a
\* position past the end means the lexer is still waiting for characters
Pending == Tk("pending", "", 0)
TokAt(toks, pos) == IF pos <= Len(toks) THEN toks[pos] ELSE Pending

\* getNextToken: once end of input is seen, the lexer keeps returning it
getNextToken(toks, p) ==
  IF TokAt(toks, p.pos) = tok_eof THEN p ELSE [p EXCEPT !.pos = @ + 1]

\* a local variable: Op applied to the value of v, which is computed once
Bind(v, Op(_)) == CHOOSE r \in {Op(x) : x \in {v}} : TRUE

-----------------------------------------------------------------------------
(* Parser *)

BinopPrecedence == [c \in {"<", "+", "-", "*"} |->
                      CASE c = "<" -> 10 [] c = "+" -> 20
                        [] c = "-" -> 30 [] c = "*" -> 40]

GetTokPrecedence(tok) ==
  IF tok.t # "ch" THEN -1
  ELSE IF tok.s \in DOMAIN BinopPrecedence THEN BinopPrecedence[tok.s] ELSE -1

Error(p, Str) == [p EXCEPT !.err = Append(@, Str)]

NumberExprAST(val) == [k |-> "Num", Val |-> val]
VariableExprAST(name) == [k |-> "Var", Name |-> name]
BinaryExprAST(op, lhs, rhs) == [k |-> "Bin", Op |-> op, LHS |-> lhs, RHS |-> rhs]
CallExprAST(callee, args) == [k |-> "Call", Callee |-> callee, Args |-> args]
PrototypeAST(name, args) == [Name |-> name, Args |-> args]
FunctionAST(proto, body) == [Proto |-> proto, Body |-> body]

\* a parse result: ast is <<node>> or <<>> for a null pointer
PR(ast, p) == [ast |-> ast, p |-> p]

RECURSIVE ParseExpression(_, _)
RECURSIVE ParseArgs(_, _, _)
RECURSIVE ParseBinOpRHS(_, _, _, _)

ParseArgs(toks, p, Args) ==
  Bind(ParseExpression(toks, p), LAMBDA Arg :
    IF Arg.ast = <<>> THEN PR(<<>>, Arg.p)
    ELSE LET Args1 == Append(Args, Arg.ast[1])
             t == TokAt(toks, Arg.p.pos) IN
         IF t = Ch(")") THEN PR(<<Args1>>, Arg.p)
         ELSE IF t # Ch(",")
              THEN PR(<<>>, Error(Arg.p, "Expected ')' or ',' in argument list"))
              ELSE ParseArgs(toks, getNextToken(toks, Arg.p), Args1))

ParseIdentifierExpr(toks, p) ==
  Bind(getNextToken(toks, p), LAMBDA p1 :
    LET IdName == TokAt(toks, p.pos).s IN
    IF TokAt(toks, p1.pos) # Ch("(") THEN PR(<<VariableExprAST(IdName)>>, p1)
    ELSE Bind(getNextToken(toks, p1), LAMBDA p2 :
           Bind(IF TokAt(toks, p2.pos) # Ch(")")
                THEN ParseArgs(toks, p2, <<>>)
                ELSE PR(<<(<<>>)>>, p2), LAMBDA A :
             IF A.ast = <<>> THEN PR(<<>>, A.p)
             ELSE PR(<<CallExprAST(IdName, A.ast[1])>>, getNextToken(toks, A.p)))))

ParseNumberExpr(toks, p) ==
  PR(<<NumberExprAST(TokAt(toks, p.pos).v)>>, getNextToken(toks, p))

ParseParenExpr(toks, p) ==
  Bind(ParseExpression(toks, getNextToken(toks, p)), LAMBDA V :
    IF V.ast = <<>> THEN V
    ELSE IF TokAt(toks, V.p.pos) # Ch(")") THEN PR(<<>>, Error(V.p, "expected ')'"))
    ELSE PR(V.ast, getNextToken(toks, V.p)))

ParsePrimary(toks, p) ==
  LET t == TokAt(toks, p.pos) IN
  CASE t.t = "id" -> ParseIdentifierExpr(toks, p)
    [] t.t = "num" -> ParseNumberExpr(toks, p)
    [] t = Ch("(") -> ParseParenExpr(toks, p)
    [] OTHER -> PR(<<>>, Error(p, "unknown token when expecting an expression"))

\* ParseBinOpRHS with the recursive call made at TokPrec, not TokPrec + 1
ParseBinOpRHS_SamePrec(ExprPrec, LHS, toks, p) ==
  LET TokPrec == GetTokPrecedence(TokAt(toks, p.pos)) IN
  IF TokPrec < ExprPrec THEN PR(<<LHS>>, p)
  ELSE LET BinOp == TokAt(toks, p.pos).s IN
       Bind(ParsePrimary(toks, getNextToken(toks, p)), LAMBDA RHS :
         IF RHS.ast = <<>> THEN RHS
         ELSE LET NextPrec == GetTokPrecedence(TokAt(toks, RHS.p.pos)) IN
              Bind(IF TokPrec < NextPrec
                   THEN ParseBinOpRHS(TokPrec, RHS.ast[1], toks, RHS.p)
                   ELSE RHS, LAMBDA RHS2 :
                IF RHS2.ast = <<>> THEN RHS2
                ELSE ParseBinOpRHS(ExprPrec, BinaryExprAST(BinOp, LHS, RHS2.ast[1]),
                                   toks, RHS2.p)))

ParseBinOpRHS(ExprPrec, LHS, toks, p) ==
  LET TokPrec == GetTokPrecedence(TokAt(toks, p.pos)) IN
  IF TokPrec < ExprPrec THEN PR(<<LHS>>, p)
  ELSE LET BinOp == TokAt(toks, p.pos).s IN
       Bind(ParsePrimary(toks, getNextToken(toks, p)), LAMBDA RHS :
         IF RHS.ast = <<>> THEN RHS
         ELSE LET NextPrec == GetTokPrecedence(TokAt(toks, RHS.p.pos)) IN
              Bind(IF TokPrec < NextPrec
                   THEN ParseBinOpRHS(TokPrec + 1, RHS.ast[1], toks, RHS.p)
                   ELSE RHS, LAMBDA RHS2 :
                IF RHS2.ast = <<>> THEN RHS2
                ELSE ParseBinOpRHS(ExprPrec, BinaryExprAST(BinOp, LHS, RHS2.ast[1]),
                                   toks, RHS2.p)))

ParseExpression(toks, p) ==
  Bind(ParsePrimary(toks, p), LAMBDA LHS :
    IF LHS.ast = <<>> THEN LHS
    ELSE ParseBinOpRHS(0, LHS.ast[1], toks, LHS.p))

RECURSIVE ParseArgNames(_, _, _)
\* the loop "while(getNextToken() == tok_identifier) ArgNames.push_back(...)"
ParseArgNames(toks, p, ArgNames) ==
  Bind(getNextToken(toks, p), LAMBDA p1 :
    IF TokAt(toks, p1.pos).t = "id"
    THEN ParseArgNames(toks, p1, Append(ArgNames, TokAt(toks, p1.pos).s))
    ELSE PR(<<ArgNames>>, p1))

ParsePrototype(toks, p) ==
  IF TokAt(toks, p.pos).t # "id"
  THEN PR(<<>>, Error(p, "Expected function name in prototype"))
  ELSE LET FnName == TokAt(toks, p.pos).s IN
       Bind(getNextToken(toks, p), LAMBDA p1 :
         IF TokAt(toks, p1.pos) # Ch("(")
         THEN PR(<<>>, Error(p1, "Expected '(' in prototype"))
         ELSE Bind(ParseArgNames(toks, p1, <<>>), LAMBDA A :
                IF TokAt(toks, A.p.pos) # Ch(")")
                THEN PR(<<>>, Error(A.p, "Expected ')' in prototype"))
                ELSE PR(<<PrototypeAST(FnName, A.ast[1])>>, getNextToken(toks, A.p))))

ParseDefinition(toks, p) ==
  Bind(ParsePrototype(toks, getNextToken(toks, p)), LAMBDA Proto :
    IF Proto.ast = <<>> THEN Proto
    ELSE Bind(ParseExpression(toks, Proto.p), LAMBDA E :
           IF E.ast = <<>> THEN E
           ELSE PR(<<FunctionAST(Proto.ast[1], E.ast[1])>>, E.p)))

ParseTopLevelExpr(toks, p) ==
  Bind(ParseExpression(toks, p), LAMBDA E :
    IF E.ast = <<>> THEN E
    ELSE PR(<<FunctionAST(PrototypeAST("", <<>>), E.ast[1])>>, E.p))

ParseExtern(toks, p) == ParsePrototype(toks, getNextToken(toks, p))

-----------------------------------------------------------------------------
(* MCJIT helper: modules and functions *)

\* a function handle (Function *): the module that holds it and its name
FH(m, n) == [m |-> m, n |-> n]
NULL == FH(0, "")

\* a function entry of a module; body is <<>> for a declaration (empty()),
\* <<ir>> once it has a basic block
Fn(name, nargs, body) == [Name |-> name, nargs |-> nargs, body |-> body]

\* the names sprintf("%s%d", "anon_func_", i) produces
AnonNames == <<"anon_func_0", "anon_func_1", "anon_func_2", "anon_func_3",
               "anon_func_4", "anon_func_5", "anon_func_6", "anon_func_7",
               "anon_func_8", "anon_func_9", "anon_func_10", "anon_func_11",
               "anon_func_12", "anon_func_13", "anon_func_14", "anon_func_15",
               "anon_func_16", "anon_func_17", "anon_func_18", "anon_func_19">>

\* GenerateUniqueName, for the root "anon_func_": the name and the new counter
GenerateUniqueName(i) == [S |-> AnonNames[i + 1], i |-> i + 1]

\* MakeLegalFunctionName: an identifier of the lexer starts with a letter and
\* is alphanumeric, so only the empty name is rewritten
MakeLegalFunctionName(Name, i) ==
  IF Name = "" THEN GenerateUniqueName(i) ELSE [S |-> Name, i |-> i]

\* Module::getFunction: index of the entry named FnName in module M, 0 if none
ModuleGetFunction(M, FnName) ==
  LET I == {i \in 1..Len(M) : M[i].Name = FnName} IN
  IF I = {} THEN 0 ELSE CHOOSE i \in I : TRUE

Entry(mods, F) == mods[F.m][ModuleGetFunction(mods[F.m], F.n)]

\* Function::Create in module m
FunctionCreate(s, m, name, nargs) ==
  [s EXCEPT !.Modules[m] = Append(@, Fn(name, nargs, <<>>))]

\* Function::eraseFromParent
eraseFromParent(s, F) ==
  LET M == s.Modules[F.m]
      i == ModuleGetFunction(M, F.n) IN
  [s EXCEPT !.Modules[F.m] = SubSeq(M, 1, i - 1) \o SubSeq(M, i + 1, Len(M))]

ErrorF(s, Str) == [s EXCEPT !.diag = Append(@, Str)]

SetMin(S) == CHOOSE x \in S : \A y \in S : x <= y

\* MCJITHelper::getFunction: the handle found and the state after the call
getFunction(s, FnName) ==
  LET hits == {k \in 1..Len(s.Modules) : ModuleGetFunction(s.Modules[k], FnName) # 0} IN
  IF hits = {} THEN [F |-> NULL, s |-> s]
  ELSE LET it == SetMin(hits)
           F == Entry(s.Modules, FH(it, FnName)) IN
       IF it = s.OpenModule THEN [F |-> FH(it, FnName), s |-> s]
       ELSE IF s.OpenModule = 0
            \* assert(OpenModule != NULL), then OpenModule->getFunction
            THEN [F |-> NULL, s |-> [s EXCEPT !.pc = "crashed"]]
       ELSE LET Open == s.Modules[s.OpenModule]
                PF == ModuleGetFunction(Open, FnName) IN
            IF PF # 0 /\ Open[PF].body # <<>>
            THEN [F |-> NULL, s |-> ErrorF(s, "redefinition of function across modules")]
            ELSE IF PF = 0
                 THEN [F |-> FH(s.OpenModule, FnName),
                       s |-> FunctionCreate(s, s.OpenModule, FnName, F.nargs)]
                 ELSE [F |-> FH(s.OpenModule, FnName), s |-> s]

\* getModuleForNewFunction without the test of OpenModule
getModuleForNewFunction_AlwaysNew(s) ==
  [s EXCEPT !.Modules = Append(@, <<>>),
            !.OpenModule = Len(s.Modules) + 1,
            !.uniq = @ + 1]

\* MCJITHelper::getModuleForNewFunction
getModuleForNewFunction(s) ==
  IF s.OpenModule # 0 THEN s
  ELSE [s EXCEPT !.Modules = Append(@, <<>>),
                 !.OpenModule = Len(s.Modules) + 1,
                 !.uniq = @ + 1]

-----------------------------------------------------------------------------
(* Code generation *)

\* a lowered value: V is <<ir>> or <<>> for a null Value*
CG(V, s) == [V |-> V, s |-> s]

RECURSIVE ExprCodegen(_, _)
RECURSIVE ArgsCodegen(_, _, _, _)

NumberExprCodegen(e, s) == CG(<<[k |-> "Const", Val |-> e.Val]>>, s)

\* NamedValues[Name] inserts a null entry for a name that is not bound
VariableExprCodegen(e, s) ==
  LET nv == IF e.Name \in DOMAIN s.NamedValues THEN s.NamedValues
            ELSE s.NamedValues @@ (e.Name :> 0)
      s1 == [s EXCEPT !.NamedValues = nv] IN
  IF nv[e.Name] # 0 THEN CG(<<[k |-> "Arg", Idx |-> nv[e.Name]]>>, s1)
  ELSE CG(<<>>, ErrorF(s1, "Unknown variable name"))

\* BinaryExprAST::Codegen returning as soon as the left operand fails
BinaryExprCodegen_ShortCircuit(e, s) ==
  Bind(ExprCodegen(e.LHS, s), LAMBDA L :
    IF L.V = <<>> THEN L
    ELSE Bind(ExprCodegen(e.RHS, L.s), LAMBDA R :
           IF R.V = <<>> THEN R
           ELSE CG(<<[k |-> "BinOp", Op |-> e.Op, L |-> L.V[1], R |-> R.V[1]]>>, R.s)))

BinaryExprCodegen(e, s) ==
  Bind(ExprCodegen(e.LHS, s), LAMBDA L :
    Bind(ExprCodegen(e.RHS, L.s), LAMBDA R :
      IF L.V = <<>> \/ R.V = <<>> THEN CG(<<>>, R.s)
      ELSE IF e.Op \in {"+", "-", "*", "<"}
           THEN CG(<<[k |-> "BinOp", Op |-> e.Op, L |-> L.V[1], R |-> R.V[1]]>>, R.s)
           ELSE CG(<<>>, ErrorF(R.s, "invalid binary operator"))))

\* the loop over Args of CallExprAST::Codegen, from argument i on
ArgsCodegen(Args, i, ArgsV, s) ==
  IF i > Len(Args) THEN CG(<<ArgsV>>, s)
  ELSE Bind(ExprCodegen(Args[i], s), LAMBDA A :
         IF A.V = <<>> THEN CG(<<>>, A.s)
         ELSE ArgsCodegen(Args, i + 1, Append(ArgsV, A.V[1]), A.s))

CallExprCodegen(e, s) ==
  Bind(getFunction(s, e.Callee), LAMBDA g :
    IF g.F = NULL THEN CG(<<>>, ErrorF(g.s, "Unknown function referenced"))
    ELSE IF Entry(g.s.Modules, g.F).nargs # Len(e.Args)
         THEN CG(<<>>, ErrorF(g.s, "Incorrect # arguments passed"))
    ELSE Bind(ArgsCodegen(e.Args, 1, <<>>, g.s), LAMBDA A :
           IF A.V = <<>> THEN A
           ELSE CG(<<[k |-> "CallInst", Callee |-> e.Callee, Args |-> A.V[1]]>>, A.s)))

ExprCodegen(e, s) ==
  CASE e.k = "Num" -> NumberExprCodegen(e, s)
    [] e.k = "Var" -> VariableExprCodegen(e, s)
    [] e.k = "Bin" -> BinaryExprCodegen(e, s)
    [] e.k = "Call" -> CallExprCodegen(e, s)

RECURSIVE BindArgs(_, _, _)
\* the loop that names the arguments and binds them in NamedValues
BindArgs(Args, Idx, nv) ==
  IF Idx > Len(Args) THEN nv
  ELSE BindArgs(Args, Idx + 1,
                [n \in DOMAIN nv \cup {Args[Idx]} |->
                   IF n = Args[Idx] THEN Idx ELSE nv[n]])

\* a function result: F is a handle or NULL
FR(F, s) == [F |-> F, s |-> s]

\* the outcomes of undefined behaviour: the process dies, or it runs on
UBOutcomes == {"crash", "go"}

\* PrototypeAST::Codegen
PrototypeCodegen(P, s0, ub) ==
  LET L == MakeLegalFunctionName(P.Name, s0.uniq)
      FnName == L.S
      bind(F, s) ==
        IF Len(P.Args) > Entry(s.Modules, F).nargs /\ ub = "crash"
        \* the argument iterator runs past the end of the argument list
        THEN FR(NULL, [s EXCEPT !.pc = "crashed"])
        ELSE FR(F, [s EXCEPT !.NamedValues = BindArgs(P.Args, 1, @)]) IN
  Bind(getModuleForNewFunction([s0 EXCEPT !.uniq = L.i]), LAMBDA s1 :
    LET M == s1.OpenModule IN
    IF ModuleGetFunction(s1.Modules[M], FnName) = 0
    THEN bind(FH(M, FnName), FunctionCreate(s1, M, FnName, Len(P.Args)))
    ELSE \* the new function was renamed: erase it and look the old one up
         Bind(getFunction(s1, P.Name), LAMBDA g :
           IF g.F = NULL
           \* F->empty() through a null pointer
           THEN IF ub = "crash" THEN FR(NULL, [g.s EXCEPT !.pc = "crashed"])
                ELSE FR(NULL, ErrorF(g.s, "redefinition of function"))
           ELSE IF Entry(g.s.Modules, g.F).body # <<>>
                THEN FR(NULL, ErrorF(g.s, "redefinition of function"))
           ELSE IF Entry(g.s.Modules, g.F).nargs # Len(P.Args)
                THEN bind(g.F, ErrorF(g.s, "redefinition of function with different # args"))
                ELSE bind(g.F, g.s)))

\* the function F with its body replaced
SetBody(s, F, body) ==
  [s EXCEPT !.Modules[F.m][ModuleGetFunction(s.Modules[F.m], F.n)].body = body]

\* FunctionAST::Codegen
FunctionCodegen(Fa, s0, ub) ==
  Bind(PrototypeCodegen(Fa.Proto, [s0 EXCEPT !.NamedValues = <<>>], ub), LAMBDA P :
    IF P.F = NULL THEN P
    ELSE Bind(ExprCodegen(Fa.Body, SetBody(P.s, P.F, <<[k |-> "entry"]>>)),
              LAMBDA RetVal :
           IF RetVal.V # <<>>
           THEN FR(P.F, SetBody(RetVal.s, P.F, <<[k |-> "Ret", V |-> RetVal.V[1]]>>))
           ELSE FR(NULL, eraseFromParent(RetVal.s, P.F))))

-----------------------------------------------------------------------------
(* Finalizing a module and resolving its symbols *)

\* the symbols the process itself provides to
\* RTDyldMemoryManager::getSymbolAddress: the library function putchard
HostSymbols == {"putchard"}

\* an address: of a host symbol (e = 0) or of the body of n in engine e
Addr(e, n) == [e |-> e, n |-> n]
NoAddr == Addr(-1, "")

HasBody(M, n) ==
  LET i == ModuleGetFunction(M, n) IN i # 0 /\ M[i].body # <<>>

\* MCJITHelper::getSymbolAddress: the first engine, oldest first, whose
\* module defines Name
HelperGetSymbolAddress(mods, engs, Name) ==
  LET hits == {e \in 1..Len(engs) : HasBody(mods[engs[e].mod], Name)} IN
  IF hits = {} THEN NoAddr ELSE Addr(SetMin(hits), Name)

\* getSymbolAddress that asks the engines before the process's symbols
getSymbolAddress_EnginesFirst(mods, engs, Name) ==
  IF HelperGetSymbolAddress(mods, engs, Name) # NoAddr
  THEN HelperGetSymbolAddress(mods, engs, Name)
  ELSE IF Name \in HostSymbols THEN Addr(0, Name) ELSE NoAddr

\* HelpingMemoryManager::getSymbolAddress
getSymbolAddress(mods, engs, Name) ==
  IF Name \in HostSymbols THEN Addr(0, Name)
  ELSE HelperGetSymbolAddress(mods, engs, Name)

RECURSIVE Callees(_)
\* the functions an instruction tree calls
Callees(ir) ==
  CASE ir.k = "CallInst" ->
         {ir.Callee} \cup UNION {Callees(ir.Args[i]) : i \in 1..Len(ir.Args)}
    [] ir.k = "BinOp" -> Callees(ir.L) \cup Callees(ir.R)
    [] ir.k = "Ret" -> Callees(ir.V)
    [] OTHER -> {}

\* the symbols the object code of module M leaves for the memory manager:
\* the functions it calls and does not define
Undefined(M) ==
  UNION {Callees(M[i].body[1]) : i \in {j \in 1..Len(M) : M[j].body # <<>>}}
    \ {M[i].Name : i \in {j \in 1..Len(M) : M[j].body # <<>>}}

\* MCJITHelper::getPointerToFunction for a function F of the open module:
\* no engine owns F yet, so the open module is closed and finalized.
\* ok is FALSE when a symbol could not be resolved (report_fatal_error).
getPointerToFunction(mods, open, engs, F) ==
  LET owners == {e \in 1..Len(engs) : engs[e].mod = F.m} IN
  IF owners # {} THEN [ok |-> TRUE, P |-> Addr(SetMin(owners), F.n),
                       OpenModule |-> open, Engines |-> engs]
  ELSE IF open = 0 THEN [ok |-> TRUE, P |-> NoAddr,
                         OpenModule |-> open, Engines |-> engs]
  ELSE LET pushed == Append(engs, [mod |-> open, links |-> <<>>])
           need == Undefined(mods[open])
           links == [n \in need |-> getSymbolAddress(mods, pushed, n)]
           NewEngines == Append(engs, [mod |-> open, links |-> links]) IN
       [ok |-> \A n \in need : links[n] # NoAddr,
        P |-> IF HasBody(mods[open], F.n)
              THEN Addr(Len(NewEngines), F.n) ELSE NoAddr,
        OpenModule |-> 0, Engines |-> NewEngines]

-----------------------------------------------------------------------------
(* Running finalized code *)

Val(v) == [st |-> "val", v |-> v]
Hung == [st |-> "hung", v |-> 0]
Undef == [st |-> "undef", v |-> 0]

RECURSIVE Run(_, _, _, _, _)
RECURSIVE RunArgs(_, _, _, _, _, _, _)
RECURSIVE Call(_, _, _, _, _)

\* the value of instruction tree ir of engine e; env holds the arguments a of
\* the running function and the call depth left
Run(mods, engs, e, ir, env) ==
  CASE ir.k = "Const" -> Val(ir.Val)
    [] ir.k = "Arg" -> IF ir.Idx <= Len(env.a) THEN Val(env.a[ir.Idx]) ELSE Undef
    [] ir.k = "Ret" -> Run(mods, engs, e, ir.V, env)
    [] ir.k = "BinOp" ->
         Bind(Run(mods, engs, e, ir.L, env), LAMBDA L :
           Bind(Run(mods, engs, e, ir.R, env), LAMBDA R :
             IF L.st # "val" THEN L ELSE IF R.st # "val" THEN R
             ELSE (CASE ir.Op = "+" -> Val(L.v + R.v)
                     [] ir.Op = "-" -> Val(L.v - R.v)
                     [] ir.Op = "*" -> Val(L.v * R.v)
                     [] ir.Op = "<" -> Val(IF L.v < R.v THEN 1 ELSE 0))))
    [] ir.k = "CallInst" ->
         Bind(RunArgs(mods, engs, e, ir.Args, 1, <<>>, env), LAMBDA A :
           IF A.st # "val" THEN A
           ELSE IF env.depth = 0 THEN Hung
           ELSE Bind(IF HasBody(mods[engs[e].mod], ir.Callee)
                     THEN Addr(e, ir.Callee)
                     ELSE engs[e].links[ir.Callee], LAMBDA target :
                  Call(mods, engs, target, A.v, env.depth - 1)))

\* the values of the arguments of a call, from argument i on
RunArgs(mods, engs, e, Args, i, acc, env) ==
  IF i > Len(Args) THEN Val(acc)
  ELSE Bind(Run(mods, engs, e, Args[i], env), LAMBDA r :
         IF r.st # "val" THEN r
         ELSE RunArgs(mods, engs, e, Args, i + 1, Append(acc, r.v), env))

\* a call of the code at address target
Call(mods, engs, target, a, depth) ==
  IF target.e = 0
  THEN Val(0)    \* putchard prints a character and returns 0
  ELSE Bind(Entry(mods, FH(engs[target.e].mod, target.n)).body[1], LAMBDA body :
         Run(mods, engs, target.e, body, [a |-> a, depth |-> depth]))

-----------------------------------------------------------------------------
(* What the user may type: the token sequences a handler reads *)

\* the text after "extern": f(x) and f(x y)
ExternToks ==
  LET x == tok_identifier("x")
      y == tok_identifier("y")
      f == tok_identifier("f") IN
  { <<f, Ch("("), x, Ch(")")>>,
    <<f, Ch("("), x, y, Ch(")")>> }

\* the text after "def": f(x) x*x, f(x y) f(4) and putchard(x) x*x
DefToks ==
  LET x == tok_identifier("x")
      y == tok_identifier("y")
      f == tok_identifier("f") IN
  { <<f, Ch("("), x, Ch(")"), x, Ch("*"), x>>,
    <<f, Ch("("), x, y, Ch(")"), f, Ch("("), tok_number(4), Ch(")")>>,
    <<tok_identifier("putchard"), Ch("("), x, Ch(")"), x, Ch("*"), x>> }

\* bare expressions: 1, f(4), y+f(4) and putchard(4)
ExprToks ==
  LET y == tok_identifier("y")
      f == tok_identifier("f") IN
  { <<tok_number(1)>>,
    <<f, Ch("("), tok_number(4), Ch(")")>>,
    <<y, Ch("+"), f, Ch("("), tok_number(4), Ch(")")>>,
    <<tok_identifier("putchard"), Ch("("), tok_number(4), Ch(")")>> }

\* the first token of a construct
FirstToks ==
  {tok_def, tok_extern, Ch(";"), tok_eof} \cup {Head(e) : e \in ExprToks}

\* the token sequences one iteration of the loop may read: a first token, or
\* the rest of a construct and the ';' after it
Chunks ==
  {<<t>> : t \in FirstToks}
    \cup {e \o <<Ch(";")>> : e \in ExternToks \cup DefToks}
    \cup {Tail(e) \o <<Ch(";")>> : e \in ExprToks}
    \cup {<<Ch(")"), Ch(";")>>}

\* the tokens a handler may read: what is piped in, or what the user types
Feed == IF input # <<>> THEN {input} ELSE Chunks

-----------------------------------------------------------------------------
(* The driver *)

\* the generator's state at the start of a top-level construct
Gen == [Modules |-> Modules, OpenModule |-> OpenModule,
        NamedValues |-> NamedValues, uniq |-> uniq, diag |-> <<>>, pc |-> "loop"]

P0 == [pos |-> 1, err |-> <<>>]

\* the handler has read toks up to position pos: every token typed has been
\* read, and the handler did not have to wait for more
Consumed(toks, pos) ==
  /\ pos <= Len(toks)
  /\ input = <<>> => pos = Len(toks)
  /\ CurTok' = toks[pos]
  /\ input' = IF input = <<>> THEN <<>> ELSE SubSeq(toks, pos + 1, Len(toks))

\* the generator's state becomes the program's state
Store(s) ==
  /\ Modules' = s.Modules
  /\ NamedValues' = s.NamedValues
  /\ uniq' = s.uniq

\* MainLoop prints the prompt at the start of every iteration
Prompt == prompts < MaxPrompts /\ prompts' = prompts + 1

\* error recovery that skips nothing
SkipToken_None(toks, p) == p

\* the error recovery of a handler whose parse failed: skip one token
SkipToken(toks, p) == getNextToken(toks, p)

\* main: the first getNextToken
Start ==
  /\ pc = "start"
  /\ \E toks \in Feed :
       /\ CurTok' = Head(toks)
       /\ input' = IF input = <<>> THEN <<>> ELSE Tail(toks)
       /\ input = <<>> => Len(toks) = 1
  /\ pc' = "loop"
  /\ UNCHANGED <<Modules, OpenModule, Engines, NamedValues, uniq, prompts, diag,
                 last, lastResult>>

\* MainLoop, case tok_eof
MainLoopEof ==
  /\ pc = "loop" /\ Prompt /\ CurTok = tok_eof
  /\ pc' = "done"
  /\ last' = [op |-> "eof", nread |-> 0, ast |-> <<>>, F |-> NULL]
  /\ UNCHANGED <<CurTok, input, Modules, OpenModule, Engines, NamedValues, uniq,
                 diag, lastResult>>

\* MainLoop, case ';'
MainLoopSemicolon ==
  /\ pc = "loop" /\ Prompt /\ CurTok = Ch(";")
  /\ \E feed \in Feed :
       LET toks == <<CurTok>> \o feed
           p == getNextToken(toks, P0) IN
       /\ Consumed(toks, p.pos)
       /\ last' = [op |-> ";", nread |-> p.pos - 1, ast |-> <<>>, F |-> NULL]
  /\ diag' = <<>>
  /\ UNCHANGED <<pc, Modules, OpenModule, Engines, NamedValues, uniq, lastResult>>

HandleDefinition ==
  /\ pc = "loop" /\ Prompt /\ CurTok = tok_def
  /\ \E feed \in Feed, ub \in UBOutcomes :
       \E toks \in {<<CurTok>> \o feed} :
       \E F \in {ParseDefinition(toks, P0)} :
       IF F.ast # <<>>
       THEN \E LF \in {FunctionCodegen(F.ast[1], Gen, ub)} :
            /\ Consumed(toks, F.p.pos)
            /\ Store(LF.s)
            /\ OpenModule' = LF.s.OpenModule
            /\ pc' = LF.s.pc
            /\ diag' = F.p.err \o LF.s.diag
            /\ last' = [op |-> "def", nread |-> F.p.pos - 1, ast |-> F.ast, F |-> LF.F]
       ELSE \E p \in {SkipToken(toks, F.p)} :
            /\ Consumed(toks, p.pos)
            /\ diag' = p.err
            /\ last' = [op |-> "def", nread |-> p.pos - 1, ast |-> <<>>, F |-> NULL]
            /\ UNCHANGED <<pc, Modules, OpenModule, NamedValues, uniq>>
  /\ UNCHANGED <<Engines, lastResult>>

HandleExtern ==
  /\ pc = "loop" /\ Prompt /\ CurTok = tok_extern
  /\ \E feed \in Feed, ub \in UBOutcomes :
       \E toks \in {<<CurTok>> \o feed} :
       \E P \in {ParseExtern(toks, P0)} :
       IF P.ast # <<>>
       THEN \E F \in {PrototypeCodegen(P.ast[1], Gen, ub)} :
            /\ Consumed(toks, P.p.pos)
            /\ Store(F.s)
            /\ OpenModule' = F.s.OpenModule
            /\ pc' = F.s.pc
            /\ diag' = P.p.err \o F.s.diag
            /\ last' = [op |-> "extern", nread |-> P.p.pos - 1, ast |-> P.ast, F |-> F.F]
       ELSE \E p \in {SkipToken(toks, P.p)} :
            /\ Consumed(toks, p.pos)
            /\ diag' = p.err
            /\ last' = [op |-> "extern", nread |-> p.pos - 1, ast |-> <<>>, F |-> NULL]
            /\ UNCHANGED <<pc, Modules, OpenModule, NamedValues, uniq>>
  /\ UNCHANGED <<Engines, lastResult>>

HandleTopLevelExpression ==
  /\ pc = "loop" /\ Prompt /\ CurTok \notin {tok_eof, Ch(";"), tok_def, tok_extern}
  /\ \E feed \in Feed, ub \in UBOutcomes :
       \E toks \in {<<CurTok>> \o feed} :
       \E F \in {ParseTopLevelExpr(toks, P0)} :
       IF F.ast # <<>>
       THEN \E LF \in {FunctionCodegen(F.ast[1], Gen, ub)} :
            /\ Consumed(toks, F.p.pos)
            /\ Store(LF.s)
            /\ diag' = F.p.err \o LF.s.diag
            /\ last' = [op |-> "expr", nread |-> F.p.pos - 1, ast |-> F.ast, F |-> LF.F]
            /\ IF LF.F = NULL
               THEN /\ pc' = LF.s.pc
                    /\ OpenModule' = LF.s.OpenModule
                    /\ UNCHANGED <<Engines, lastResult>>
               ELSE \E FPtr \in {getPointerToFunction(LF.s.Modules, LF.s.OpenModule,
                                                      Engines, LF.F)} :
                    /\ OpenModule' = FPtr.OpenModule
                    /\ Engines' = FPtr.Engines
                    /\ IF ~FPtr.ok
                       THEN pc' = "fatal" /\ UNCHANGED lastResult
                       ELSE \E r \in {Call(LF.s.Modules, FPtr.Engines, FPtr.P,
                                           <<>>, MaxDepth)} :
                            /\ pc' = IF r.st = "hung" THEN "hung" ELSE "loop"
                            /\ lastResult' = IF r.st = "hung" THEN lastResult ELSE <<r>>
       ELSE \E p \in {SkipToken(toks, F.p)} :
            /\ Consumed(toks, p.pos)
            /\ diag' = p.err
            /\ last' = [op |-> "expr", nread |-> p.pos - 1, ast |-> <<>>, F |-> NULL]
            /\ UNCHANGED <<pc, Modules, OpenModule, Engines, NamedValues, uniq, lastResult>>

-----------------------------------------------------------------------------
Init ==
  /\ pc = "start"
  /\ CurTok = Pending
  /\ input = <<>>
  /\ Modules = <<>>
  /\ OpenModule = 0
  /\ Engines = <<>>
  /\ NamedValues = <<>>
  /\ uniq = 0
  /\ prompts = 0
  /\ diag = <<>>
  /\ last = [op |-> "none", nread |-> 0, ast |-> <<>>, F |-> NULL]
  /\ lastResult = <<>>

Next ==
  \/ Start
  \/ MainLoopEof
  \/ MainLoopSemicolon
  \/ HandleDefinition
  \/ HandleExtern
  \/ HandleTopLevelExpression

\* an interactive session: the user types one chunk at a time
Spec == Init /\ [][Next]_vars

-----------------------------------------------------------------------------
(* The driver loop on a finite piped input *)

RECURSIVE Streams(_, _)
\* the token sequences of length n over alphabet A
Streams(A, n) ==
  IF n = 0 THEN {<<>>} ELSE {<<t>> \o w : t \in A, w \in Streams(A, n - 1)}

LoopAlphabet ==
  {tok_def, tok_extern, tok_identifier("f"), tok_number(1),
   Ch("("), Ch(")"), Ch(";"), Ch("+"), Ch(",")}

\* sessions that end other than at the end of input:
\* "def f(x) f(4); f(4);" recurses for ever, "extern f(x); f(4);" calls a
\* function nobody defines
Sessions ==
  LET x == tok_identifier("x")
      f == tok_identifier("f")
      call == <<f, Ch("("), tok_number(4), Ch(")"), Ch(";")>> IN
  { <<tok_def, f, Ch("("), x, Ch(")"), f, Ch("("), tok_number(4), Ch(")"), Ch(";")>>
      \o call,
    <<tok_extern, f, Ch("("), x, Ch(")"), Ch(";")>> \o call }

InitLoop ==
  /\ input \in {w \o <<tok_eof>> :
                  w \in Sessions \cup UNION {Streams(LoopAlphabet, n) : n \in 0..MaxStream}}
  /\ pc = "start"
  /\ CurTok = Pending
  /\ Modules = <<>>
  /\ OpenModule = 0
  /\ Engines = <<>>
  /\ NamedValues = <<>>
  /\ uniq = 0
  /\ prompts = 0
  /\ diag = <<>>
  /\ last = [op |-> "none", nread |-> 0, ast |-> <<>>, F |-> NULL]
  /\ lastResult = <<>>

\* the loop keeps running until main returns or the process dies
SpecLoop == InitLoop /\ [][Next]_vars /\ WF_vars(Next)

-----------------------------------------------------------------------------
(* The parser on expressions of numbers and binary operators *)

RECURSIVE ExprStream(_, _)
\* the expression 1 ops[1] 2 ops[2] 3 ... up to primary n
ExprStream(ops, n) ==
  IF n = 1 THEN <<tok_number(1)>>
  ELSE ExprStream(ops, n - 1) \o <<Ch(ops[n - 1]), tok_number(n)>>

ExprStreams ==
  UNION {{ExprStream(ops, n + 1) : ops \in [1..n -> DOMAIN BinopPrecedence]} :
           n \in 0..MaxOps}

InitParse ==
  /\ input \in {w \o <<Ch(";"), tok_eof>> : w \in ExprStreams}
  /\ pc = "start"
  /\ CurTok = Pending
  /\ Modules = <<>>
  /\ OpenModule = 0
  /\ Engines = <<>>
  /\ NamedValues = <<>>
  /\ uniq = 0
  /\ prompts = 0
  /\ diag = <<>>
  /\ last = [op |-> "none", nread |-> 0, ast |-> <<>>, F |-> NULL]
  /\ lastResult = <<>>

NextParse ==
  \/ Start
  \/ HandleTopLevelExpression
  \/ MainLoopSemicolon
  \/ MainLoopEof

SpecParse == InitParse /\ [][NextParse]_vars

-----------------------------------------------------------------------------
(* Properties *)

\* C1: at every reachable state each function name has a body in at most one
\* unit of the history: a definition for a name that already has a body,
\* in the open unit or in a closed one, adds no second body.
C1_OneBodyPerName ==
  \A m1 \in 1..Len(Modules), m2 \in 1..Len(Modules) :
    \A i \in 1..Len(Modules[m1]), j \in 1..Len(Modules[m2]) :
      ( /\ Modules[m1][i].Name = Modules[m2][j].Name
        /\ Modules[m1][i].body # <<>>
        /\ Modules[m2][j].body # <<>> ) => m1 = m2

\* C2: lowering a prototype (of an extern or a definition) whose name exists
\* in some unit with a different number of parameters fails: it returns no
\* function, binds no parameter name and leaves the existing entries alone.
C2_ArityMismatchFails ==
  [][ ( /\ last'.op \in {"def", "extern"}
        /\ last'.ast # <<>>
        /\ LET P == IF last'.op = "def" THEN last'.ast[1].Proto ELSE last'.ast[1] IN
           \E m \in 1..Len(Modules) : \E i \in 1..Len(Modules[m]) :
             Modules[m][i].Name = P.Name /\ Modules[m][i].nargs # Len(P.Args) )
      => ( /\ last'.F = NULL
           /\ last'.op = "extern" => NamedValues' = NamedValues
           /\ last'.op = "def" => \A n \in DOMAIN NamedValues' : NamedValues'[n] = 0
           /\ \A m \in 1..Len(Modules) : Modules'[m] = Modules[m] ) ]_vars

\* C3: a bare expression that calls, with the right number of arguments, a
\* function whose body is in a closed unit is lowered and run: the open unit
\* ends up with a body-less declaration of the callee, no closed unit changes,
\* and the value printed is the value of that body, as in one unit.
C3_CrossUnitCall ==
  [][ ( /\ last'.op = "expr"
        /\ last'.ast # <<>>
        /\ LET B == last'.ast[1].Body IN
           /\ B.k = "Call"
           /\ \A i \in 1..Len(B.Args) : B.Args[i].k = "Num"
           /\ \E e \in 1..Len(Engines) :
                LET M == Modules[Engines[e].mod] IN
                /\ HasBody(M, B.Callee)
                /\ M[ModuleGetFunction(M, B.Callee)].nargs = Len(B.Args) )
      => LET B == last'.ast[1].Body
             e == CHOOSE e \in 1..Len(Engines) : HasBody(Modules[Engines[e].mod], B.Callee)
             U == Modules'[Len(Engines) + 1] IN
         /\ last'.F # NULL
         /\ ModuleGetFunction(U, B.Callee) # 0
         /\ ~HasBody(U, B.Callee)
         /\ \A m \in 1..Len(Engines) : Modules'[Engines[m].mod] = Modules[Engines[m].mod]
         /\ pc' = "loop"
         /\ lastResult' = <<Call(Modules, Engines, Addr(e, B.Callee),
                                 [i \in 1..Len(B.Args) |-> B.Args[i].Val], MaxDepth)>>
    ]_vars

C5_CalleeUntouched ==
  [][ (\E i \in 1..Len(diag') : diag'[i] = "Incorrect # arguments passed")
      => \A m \in 1..Len(Modules) : \A i \in 1..Len(Modules[m]) :
           \E j \in 1..Len(Modules'[m]) :
             /\ Modules'[m][j].Name = Modules[m][i].Name
             /\ Modules'[m][j].nargs = Modules[m][i].nargs
             /\ (Modules'[m][j].body = <<>>) = (Modules[m][i].body = <<>>) ]_vars

\* C10: when the prototype of an extern or a definition names a function that
\* is already in the open unit, the cross-unit lookup of that name returns a
\* function, not a null handle.
C10_LookupNotNull ==
  [][ ( /\ last'.op \in {"def", "extern"}
        /\ last'.ast # <<>>
        /\ OpenModule # 0
        /\ LET P == IF last'.op = "def" THEN last'.ast[1].Proto ELSE last'.ast[1] IN
           ModuleGetFunction(Modules[OpenModule], P.Name) # 0 )
      => LET P == IF last'.op = "def" THEN last'.ast[1].Proto ELSE last'.ast[1] IN
         getFunction(Gen, P.Name).F # NULL ]_vars

C6_UnitLifecycle ==
  /\ [](/\ OpenModule \in {0, Len(Modules)}
        /\ Len(Engines) = Len(Modules) - (IF OpenModule = 0 THEN 0 ELSE 1)
        /\ \A e \in 1..Len(Engines) : Engines[e].mod = e)
  /\ [][ /\ Len(Modules') >= Len(Modules)
         /\ Len(Engines') >= Len(Engines)
         /\ \A m \in 1..Len(Modules) :
              m # OpenModule =>
                /\ Modules'[m] = Modules[m]
                /\ OpenModule' # m
                /\ Engines'[m] = Engines[m] ]_vars

\* two units are closed and a third is open and holds a forward declaration
\* of a function whose body is in a closed unit
C6_Witness ==
  /\ Len(Engines) >= 2
  /\ OpenModule = Len(Modules)
  /\ \E i \in 1..Len(Modules[OpenModule]) :
       /\ Modules[OpenModule][i].body = <<>>
       /\ \E m \in 1..Len(Engines) : HasBody(Modules[m], Modules[OpenModule][i].Name)

RECURSIVE InOrder(_)
\* the tokens of an expression tree of numbers and binary operators, in order
InOrder(T) ==
  IF T.k = "Bin" THEN InOrder(T.LHS) \o <<Ch(T.Op)>> \o InOrder(T.RHS)
  ELSE <<tok_number(T.Val)>>

RECURSIVE Grouped(_)
\* every operator of the tree binds strictly tighter than the operator whose
\* right operand it is in, and at least as tight as the one whose left
\* operand it is in
Grouped(T) ==
  T.k = "Bin" =>
    /\ Grouped(T.LHS)
    /\ Grouped(T.RHS)
    /\ T.RHS.k = "Bin" => BinopPrecedence[T.RHS.Op] > BinopPrecedence[T.Op]
    /\ T.LHS.k = "Bin" => BinopPrecedence[T.LHS.Op] >= BinopPrecedence[T.Op]

\* C7: the tree ParseExpression builds for numbers separated by binary
\* operators has the tokens read as its leaves and operators, in order; a
\* tighter operator is grouped into the right operand of its left neighbour,
\* operators of equal precedence group to the left; 1+2*3 is +(1, *(2, 3))
\* and 1-2-3 is -(-(1, 2), 3).
C7_PrecedenceClimbing ==
  [][ (last'.op = "expr" /\ last'.ast # <<>> /\ input # <<>>)
      => LET T == last'.ast[1].Body
             read == SubSeq(<<CurTok>> \o input, 1, last'.nread)
             n(v) == NumberExprAST(v) IN
         /\ InOrder(T) = read
         /\ Grouped(T)
         /\ read = <<tok_number(1), Ch("+"), tok_number(2), Ch("*"), tok_number(3)>>
              => T = BinaryExprAST("+", n(1), BinaryExprAST("*", n(2), n(3)))
         /\ read = <<tok_number(1), Ch("-"), tok_number(2), Ch("-"), tok_number(3)>>
              => T = BinaryExprAST("-", BinaryExprAST("-", n(1), n(2)), n(3)) ]_vars

\* 1+2*3+4 has been parsed: the product is the right operand of the first sum
C7_Witness ==
  /\ last.op = "expr"
  /\ last.ast # <<>>
  /\ last.ast[1].Body =
       BinaryExprAST("+",
         BinaryExprAST("+", NumberExprAST(1),
                       BinaryExprAST("*", NumberExprAST(2), NumberExprAST(3))),
         NumberExprAST(4))

C9_RightNotLowered ==
  [][ ( /\ last'.op = "expr"
        /\ last'.ast # <<>>
        /\ last'.ast[1].Body.k = "Bin"
        /\ last'.ast[1].Body.LHS.k = "Var" )
      => ( /\ diag' = <<"Unknown variable name">>
           /\ Modules' = IF OpenModule # 0 THEN Modules ELSE Append(Modules, <<>>)
           /\ DOMAIN NamedValues' = {last'.ast[1].Body.LHS.Name} ) ]_vars

\* C9 as amended: both operands of a BinaryOp are lowered, left then right,
\* and the BinaryOp fails if either failed: when the left operand is an
\* unknown variable and the right one a call, the call is still looked up, so
\* an unknown callee is reported after the variable, and a callee known only
\* from a closed unit gets a forward declaration in the open unit.
C9_BothLowered ==
  [][ ( /\ last'.op = "expr"
        /\ last'.ast # <<>>
        /\ last'.ast[1].Body.k = "Bin"
        /\ last'.ast[1].Body.LHS.k = "Var"
        /\ last'.ast[1].Body.RHS.k = "Call" )
      => LET c == last'.ast[1].Body.RHS.Callee
             inOpen == OpenModule # 0 /\ ModuleGetFunction(Modules[OpenModule], c) # 0
             inClosed == \E m \in 1..Len(Modules) :
                            m # OpenModule /\ ModuleGetFunction(Modules[m], c) # 0
             U == Modules'[Len(Modules')] IN
         /\ last'.F = NULL
         /\ diag'[1] = "Unknown variable name"
         /\ (~inOpen /\ ~inClosed)
              => diag' = <<"Unknown variable name", "Unknown function referenced">>
         /\ (inClosed /\ ~inOpen)
              => ModuleGetFunction(U, c) # 0 /\ ~HasBody(U, c) ]_vars

\* y+f(4) was lowered in a fresh unit after f was put into a closed unit:
\* y is unknown, and the unit holds the forward declaration of f
C9_Witness ==
  /\ last.op = "expr"
  /\ last.ast # <<>>
  /\ last.ast[1].Body.k = "Bin"
  /\ last.ast[1].Body.LHS.k = "Var"
  /\ last.F = NULL
  /\ Len(Engines) >= 1
  /\ OpenModule = Len(Engines) + 1
  /\ Modules[OpenModule] = <<Fn("f", 1, <<>>)>>
====
